---- MODULE Spec2Model ----
(***************************************************************************)
(* Verification model of the MMM dashboard (georgeerol/                    *)
(* MarketingAnalyticsDashboard).                                           *)
(*                                                                         *)
(* Part 1 - the model loader: load_mmm_model(model_path) wrapped in        *)
(*          functools.lru_cache(maxsize=1), called from request threads.   *)
(* Part 2 - the analytics query surface and the insight generators of the  *)
(*          web client (useMMMData.getChannelSummary, SimpleMMInsights,    *)
(*          MMMInsights).                                                  *)
(* Part 3 - channel queries through the useMMMData hook.                   *)
(* Part 4 - the calculations of the data processor and curve generator.    *)
(* Part 5 - the auth store, the dashboard page and an MMM chart.           *)
(* Part 6 - the figures of SimpleContributionChart.                        *)
(* Part 7 - RegisterForm.                                                  *)
(* Part 8 - the actions of the auth store with their network waits.        *)
(* Part 9 - one useMMMData hook serving a batch of concurrent calls.       *)
(* Part 10 - exportInsights and the ExportDialog.                          *)
(* Part 11 - ContributionChart and the effect that fetches its data.       *)
(*                                                                         *)
(* Units: efficiencies are in hundredths (1.58 is 158), saturation points  *)
(* and spend in dollars.                                                   *)
(***************************************************************************)
EXTENDS Integers, Sequences, FiniteSets, TLC

(***************************************************************************)
(* Bounds of the model.                                                    *)
(***************************************************************************)
NCallers == 2
MaxLoads == 3
MaxChannels == 3
NClients == 2
NSamples == 5
MaxPeriods == 3
MaxSlope == 3
MaxSummaryChannels == 7
MaxSubmits == 2
MaxPending == 2
MaxSessions == 2
MaxLogouts == 2
MaxBatch == 3
MaxTimers == 3
MaxInFlight == 8

Callers == 1..NCallers
Clients == 1..NClients

VARIABLES
    \* ---- model loader ----
    slot,           \* the single lru_cache entry, NoArtifact when empty
    pc,             \* per caller: "idle", "loading", "returned", "raised"
    loadId,         \* per caller: identity of the object its load is building
    ret,            \* per caller: the object its call returned
    loads,          \* load-counter probe: number of physical loads started
    fileState,      \* the model file: "ok", "missing" or "invalid"
    strict,         \* strict mode of the store
    arrivedDuring,  \* per caller: the callers whose load was in flight when it missed
    last,           \* the object the most recently completed call returned
    afterReset,     \* TRUE between a reset and the next call
    exceeded,       \* per caller: its physical load has run past the timeout
    \* ---- analytics queries and insight components ----
    model,          \* the loaded model's data behind the /mmm endpoints
    stage,          \* the insights card: "mounted" or "rendered"
    component,      \* which component rendered: "SimpleMMInsights", "MMMInsights"
    summary,        \* the channel summary the component was given
    insights,       \* the insight list the component set
    \* ---- channel queries through the useMMMData hook ----
    published,      \* the model's data as it was when load published it
    qpc,            \* per client: "idle", "fetching", "channels", "done"
    qreq,           \* per client: the query it made, [kind, channel]
    qres,           \* per client: what the query gave its caller
    hookError,      \* per client: the hook's error state, "null" when unset
    \* ---- the processors' calculations ----
    calcIn,         \* the input of one calculation, tagged with its operation
    calcOut,        \* its output
    calcStage,      \* "pending" or "done"
    \* ---- the auth store, the dashboard page and an MMM chart ----
    token,          \* useAuth().token: "null", "valid" or "expired"
    user,           \* useAuth().user: "null" or "u"
    isHydrated,     \* the store has been rehydrated from localStorage
    storage,        \* localStorage 'auth-storage': the persisted user, token
    route,          \* the page shown: "/dashboard" or "/login"
    pageDeps,       \* DashboardPage: the values its effect last ran with
    providerDeps,   \* AuthProvider: the values its effect last ran with
    inflight,       \* the tokens of the checkAuth requests not yet settled
    standalone,     \* the chart is rendered on its own, outside the page
    chartDeps,      \* the chart: the token its effect last ran with
    chartFetched,   \* the chart: the token of its latest fetch, or "none"
    issuedWith,      \* the tokens with which MMM requests were issued
    chartSummary,   \* SimpleContributionChart: the channel summary it was given (tenths)
    data,           \* SimpleContributionChart: its data state, the bars of the chart
    chartStage,      \* SimpleContributionChart: "fetching" or "shown"
    formData,       \* RegisterForm: the fields as typed
    validationErrors,\* RegisterForm: per field, its error message ("" when none)
    submitted,      \* the argument of the latest onSubmit call, NoSubmit before any
    calls,           \* the number of onSubmit calls
    requests,       \* useAuth: the network requests in flight, each with what it captured
    logouts,        \* the number of logout calls so far
    issued,         \* the number of sessions the service has issued
    isLoading,      \* useAuth().isLoading
    loggedOut,       \* logout has run and no login or register started after it has succeeded
    loading,        \* useMMMData: its loading state
    error,          \* useMMMData: its error state, "null" when unset
    batch,           \* the calls a component issues together: per call its method and position
    tokenItem,      \* localStorage item 'token': "null" when absent
    isOpen,         \* ExportDialog: the dialog is open
    isExporting,    \* ExportDialog: an export is running
    exportStatus,   \* ExportDialog: the status line, [type, message]
    exporting,      \* the export request in flight, NoExport when none
    timers,          \* the number of auto-close timers not yet fired
    effectPending,  \* ContributionChart: a render has happened whose effect has not run yet
    awaitingData,   \* the getChannelSummary calls awaiting their two fetches
    awaitingChannels,\* the getChannelSummary calls awaiting their getChannels
    chart           \* ContributionChart: "empty" until setData, then "set"

loaderVars == <<slot, pc, loadId, ret, loads, fileState, strict,
                arrivedDuring, last, afterReset, exceeded>>

insightVars == <<model, stage, component, summary, insights>>

queryVars == <<published, qpc, qreq, qres, hookError>>

calcVars == <<calcIn, calcOut, calcStage>>

pageVars == <<token, user, isHydrated, storage, route, pageDeps, providerDeps,
              inflight, standalone, chartDeps, chartFetched, issuedWith>>

chartVars == <<chartSummary, data, chartStage>>

formVars == <<formData, validationErrors, submitted, calls>>

authVars == <<requests, logouts, issued, isLoading, loggedOut>>

hookVars == <<loading, error, batch>>

exportVars == <<tokenItem, isOpen, isExporting, exportStatus, exporting, timers>>

mountVars == <<effectPending, awaitingData, awaitingChannels, chart>>

vars == <<loaderVars, insightVars, queryVars, calcVars, pageVars,
    chartVars,
    formVars,
    authVars,
    hookVars,
    exportVars,
    mountVars>>

\* the variables the steps of one part leave alone
outsideLoader == <<insightVars, queryVars, calcVars, pageVars,
    chartVars,
    formVars,
    authVars,
    hookVars,
    exportVars,
    mountVars>>

outsideInsights == <<loaderVars, queryVars, calcVars, pageVars,
    chartVars,
    formVars,
    authVars,
    hookVars,
    exportVars,
    mountVars>>

outsideQueries == <<loaderVars, stage, component, summary, insights, calcVars,
                    pageVars,
    chartVars,
    formVars,
    authVars,
    hookVars,
    exportVars,
    mountVars>>

outsideCalc == <<loaderVars, insightVars, queryVars, pageVars,
    chartVars,
    formVars,
    authVars,
    hookVars,
    exportVars,
    mountVars>>

outsidePage == <<loaderVars, insightVars, queryVars, calcVars,
    chartVars,
    formVars,
    authVars,
    hookVars,
    exportVars,
    mountVars>>

outsideChart == <<loaderVars,
    insightVars,
    queryVars,
    calcVars,
    pageVars,
    formVars,
    authVars,
    hookVars,
    exportVars,
    mountVars>>

outsideForm == <<loaderVars,
    insightVars,
    queryVars,
    calcVars,
    pageVars,
    chartVars,
    authVars,
    hookVars,
    exportVars,
    mountVars>>

outsideAuth == <<loaderVars,
    insightVars,
    queryVars,
    calcVars,
    pageVars,
    chartVars,
    formVars,
    hookVars,
    exportVars,
    mountVars>>

(***************************************************************************)
(* Part 1: the model loader                                                *)
(*                                                                         *)
(* The application loads one configured model file; load_mmm_model is      *)
(* memoised by functools.lru_cache(maxsize=1), whose wrapper looks the key *)
(* up under its lock, releases the lock while the wrapped function runs,   *)
(* and takes it again to store the result.                                 *)
(***************************************************************************)
RealChannelCount == 5
SyntheticChannelCount == 5

NoArtifact == [id |-> 0, source |-> "none", channels |-> 0]
FileStates == {"ok", "missing", "invalid"}

\* meridian.model.model.load_mmm: the real Google model read from disk
load_mmm(id) == [id |-> id, source |-> "real", channels |-> RealChannelCount]

\* the placeholder model substituted when the real one cannot be loaded
create_fallback_model(id) ==
    [id |-> id, source |-> "synthetic", channels |-> SyntheticChannelCount]

\* whether the physical load fails: the file is unreadable or does not pass
\* structural validation
LoadFails == fileState # "ok"

\* a body that tags whatever it returns as the real model
load_mmm_model_untagged(id) == load_mmm(id)

\* body of load_mmm_model: try the real load, fall back to the placeholder
load_mmm_model(id) ==
    IF LoadFails THEN create_fallback_model(id) ELSE load_mmm(id)

\* strict mode surfaces the failure instead of substituting the placeholder
RaisesArtifactLoadError == strict /\ LoadFails

\* a lookup that never finds the entry
CacheMiss(s) == FALSE

\* lru_cache: the key lookup performed (under the cache's lock) on entry
CacheHit(s) == s # NoArtifact

\* lru_cache: the store performed (under the lock) after the wrapped function
\* returned; an entry that was added meanwhile is left alone
CacheStore(s, obj) == IF s # NoArtifact THEN s ELSE obj

LoaderStart ==
    /\ slot = NoArtifact
    /\ pc = [c \in Callers |-> "idle"]
    /\ loadId = [c \in Callers |-> 0]
    /\ ret = [c \in Callers |-> NoArtifact]
    /\ loads = 0
    /\ arrivedDuring = [c \in Callers |-> {}]
    /\ last = NoArtifact
    /\ afterReset = FALSE
    /\ exceeded = [c \in Callers |-> FALSE]

LoaderInit ==
    /\ LoaderStart
    /\ fileState \in FileStates
    /\ strict \in BOOLEAN

\* the loader as the analytics queries find it: not part of those runs
LoaderParked ==
    /\ LoaderStart
    /\ fileState = "ok"
    /\ strict = FALSE

\* A request thread enters load_mmm_model: the wrapper looks the key up; on
\* a hit it returns the cached object, on a miss it releases the lock and
\* starts the wrapped function (the physical load).
Call(c) ==
    /\ pc[c] = "idle"
    /\ afterReset' = FALSE
    /\ IF CacheHit(slot)
       THEN /\ pc' = [pc EXCEPT ![c] = "returned"]
            /\ ret' = [ret EXCEPT ![c] = slot]
            /\ last' = slot
            /\ UNCHANGED <<loads, loadId, arrivedDuring>>
       ELSE /\ loads < MaxLoads
            /\ pc' = [pc EXCEPT ![c] = "loading"]
            /\ loads' = loads + 1
            /\ loadId' = [loadId EXCEPT ![c] = loads + 1]
            /\ arrivedDuring' = [arrivedDuring EXCEPT ![c] =
                                    {d \in Callers : pc[d] = "loading"}]
            /\ UNCHANGED <<ret, last>>
    /\ UNCHANGED <<slot, fileState, strict, exceeded, outsideLoader>>

\* The physical load of caller c ends: the wrapped function returns (or
\* raises, which lru_cache does not cache) and the wrapper stores the result.
Complete(c) ==
    /\ pc[c] = "loading"
    /\ IF RaisesArtifactLoadError
       THEN /\ pc' = [pc EXCEPT ![c] = "raised"]
            /\ last' = NoArtifact
            /\ UNCHANGED <<slot, ret>>
       ELSE LET obj == load_mmm_model(loadId[c]) IN
            /\ slot' = CacheStore(slot, obj)
            /\ pc' = [pc EXCEPT ![c] = "returned"]
            /\ ret' = [ret EXCEPT ![c] = obj]
            /\ last' = obj
    /\ UNCHANGED <<loadId, loads, fileState, strict, arrivedDuring, afterReset,
                   exceeded, outsideLoader>>

\* The caller is done with the result of its call and may call again.
Release(c) ==
    /\ pc[c] \in {"returned", "raised"}
    /\ pc' = [pc EXCEPT ![c] = "idle"]
    /\ ret' = [ret EXCEPT ![c] = NoArtifact]
    /\ loadId' = [loadId EXCEPT ![c] = 0]
    /\ arrivedDuring' = [d \in Callers |->
                            IF d = c THEN {} ELSE arrivedDuring[d] \ {c}]
    /\ exceeded' = [exceeded EXCEPT ![c] = FALSE]
    /\ UNCHANGED <<slot, loads, fileState, strict, last, afterReset,
                   outsideLoader>>

\* The physical load of caller c runs past the configured timeout. The
\* wrapped function has no timer: nothing else happens.
Exceed(c) ==
    /\ pc[c] = "loading"
    /\ ~exceeded[c]
    /\ exceeded' = [exceeded EXCEPT ![c] = TRUE]
    /\ UNCHANGED <<slot, pc, loadId, ret, loads, fileState, strict,
                   arrivedDuring, last, afterReset, outsideLoader>>

\* reset(): clear the cached slot
Reset ==
    /\ slot' = NoArtifact
    /\ last' = NoArtifact
    /\ afterReset' = TRUE
    /\ UNCHANGED <<pc, loadId, ret, loads, fileState, strict, arrivedDuring,
                   exceeded, outsideLoader>>

(***************************************************************************)
(* Part 2: the analytics queries and the insight components                *)
(***************************************************************************)
EffValues == {0, 100, 110, 200}
SatValues == {0, 25000, 50000}
TotalWeeks == 156

\* the data of a loaded model: n channels (named 1..n in the order the
\* service lists them), each with its curve efficiency, its saturation
\* point and its total contribution (at most one channel, heavy, has the
\* larger total)
TotalsOf(n, heavy) ==
    [ch \in 1..n |-> IF ch = heavy THEN 4000 ELSE 1000]

ModelOf(n, e, st, heavy) ==
    [n |-> n, eff |-> e, sat |-> st, total |-> TotalsOf(n, heavy)]

NoModel == [n |-> 0, eff |-> <<>>, sat |-> <<>>, total |-> <<>>]

\* GET /mmm/channels
getChannels(m) == [i \in 1..m.n |-> i]

\* GET /mmm/contribution (all channels)
getContribution(m) ==
    [channels |-> [i \in 1..m.n |-> i],
     summary |-> [ch \in 1..m.n |-> [total |-> m.total[ch]]]]

\* GET /mmm/response-curves (all channels)
getResponseCurves(m) ==
    [curves |-> [ch \in 1..m.n |->
                    [efficiency |-> m.eff[ch], saturation_point |-> m.sat[ch]]]]

\* GET /mmm/info
getMMMInfo(m) == [channels |-> [i \in 1..m.n |-> i], total_weeks |-> TotalWeeks]

RECURSIVE SumOver(_, _)
\* reduce((sum, x) => sum + x, 0) over the values of f at the keys in S
SumOver(f, S) ==
    IF S = {} THEN 0
    ELSE LET k == CHOOSE x \in S : TRUE IN f[k] + SumOver(f, S \ {k})

RECURSIVE SelectEntries(_, _, _, _)
\* the channels.forEach of getChannelSummary: a channel gets an entry when
\* both its contribution summary and its curve are present
SelectEntries(channels, contributionData, responseCurvesData, i) ==
    IF i > Len(channels) THEN <<>>
    ELSE LET channel == channels[i]
             present == /\ channel \in DOMAIN contributionData.summary
                        /\ channel \in DOMAIN responseCurvesData.curves
             sumTotals == SumOver([ch \in DOMAIN contributionData.summary |->
                                      contributionData.summary[ch].total],
                                  DOMAIN contributionData.summary)
             rest == SelectEntries(channels, contributionData,
                                   responseCurvesData, i + 1)
         IN IF present
            THEN <<[name |-> channel,
                    total_contribution |-> contributionData.summary[channel].total,
                    share_num |-> contributionData.summary[channel].total,
                    share_den |-> sumTotals,
                    efficiency |-> responseCurvesData.curves[channel].efficiency]>>
                 \o rest
            ELSE rest

\* a summary that also requires the curve's efficiency to be truthy
getChannelSummaryTruthyEfficiency(m) ==
    SelectEntries(getChannels(m), getContribution(m),
                  [curves |-> [ch \in {x \in 1..m.n : m.eff[x] # 0} |->
                                  getResponseCurves(m).curves[ch]]], 1)

\* useMMMData.getChannelSummary: the entries of the summary object, in
\* insertion order; contribution_share is kept as share_num / share_den
getChannelSummary(m) ==
    SelectEntries(getChannels(m), getContribution(m), getResponseCurves(m), 1)

\* the comparator (a, b) => b.efficiency - a.efficiency
ByEfficiencyAscending(a, b) == a.efficiency - b.efficiency

ByEfficiencyDescending(a, b) == b.efficiency - a.efficiency

RECURSIVE InsertSorted(_, _)
\* Array.prototype.sort is stable: an entry goes after every entry the
\* comparator does not order behind it
InsertSorted(sorted, e) ==
    IF sorted = <<>> THEN <<e>>
    ELSE IF ByEfficiencyDescending(Head(sorted), e) <= 0
         THEN <<Head(sorted)>> \o InsertSorted(Tail(sorted), e)
         ELSE <<e>> \o sorted

RECURSIVE sortedByEfficiency(_)
sortedByEfficiency(channels) ==
    IF channels = <<>> THEN <<>>
    ELSE InsertSorted(sortedByEfficiency(SubSeq(channels, 1, Len(channels) - 1)),
                      channels[Len(channels)])

\* an Insight; the fields a rule does not set are 0 / empty
Insight(type, title, channel, from, to, gap, names) ==
    [type |-> type, title |-> title, channel |-> channel, from |-> from,
     to |-> to, gap |-> gap, names |-> names]

\* JavaScript truthiness of a number
Truthy(x) == x # 0

LowSaturationThreshold == 50000
LowEfficiencyThreshold == 50

RECURSIVE FilterSeq(_, _, _)
\* Array.prototype.filter over the keys ks, keeping those in the set keep
FilterSeq(ks, keep, i) ==
    IF i > Len(ks) THEN <<>>
    ELSE (IF ks[i] \in keep THEN <<ks[i]>> ELSE <<>>) \o FilterSeq(ks, keep, i + 1)

RECURSIVE Ascending(_)
Ascending(S) ==
    IF S = {} THEN <<>>
    ELSE LET k == CHOOSE x \in S : \A y \in S : x <= y
         IN <<k>> \o Ascending(S \ {k})

\* Object.entries: the keys of an object in insertion order, which for the
\* service's responses is the order of the channel list
Keys(obj) == Ascending(DOMAIN obj)

\* the filter of the saturation warning
nearSaturation(curves) ==
    FilterSeq(Keys(curves),
              {ch \in DOMAIN curves :
                  /\ Truthy(curves[ch].saturation_point)
                  /\ curves[ch].saturation_point < LowSaturationThreshold},
              1)

\* the efficiency statistics of SimpleMMInsights: over the positive curve
\* efficiencies, 1 (100 hundredths) when there is none; the average is kept
\* as sum / count
EfficiencyStats(curves) ==
    LET positive == {ch \in DOMAIN curves : curves[ch].efficiency > 0}
        effOf == [ch \in DOMAIN curves |-> curves[ch].efficiency]
    IN IF positive = {}
       THEN [avg_num |-> 100, avg_den |-> 1, max |-> 100, min |-> 100]
       ELSE [avg_num |-> SumOver(effOf, positive),
             avg_den |-> Cardinality(positive),
             max |-> CHOOSE x \in {effOf[ch] : ch \in positive} :
                        \A ch \in positive : effOf[ch] <= x,
             min |-> CHOOSE x \in {effOf[ch] : ch \in positive} :
                        \A ch \in positive : effOf[ch] >= x]

\* the pushes with the saturation alert ahead of the budget recommendation
PushedAlertFirst(top, under, budget, saturation, portfolio) ==
    top \o under \o saturation \o budget \o portfolio

\* generatedInsights after the five conditional pushes, in program order
Pushed(top, under, budget, saturation, portfolio) ==
    top \o under \o budget \o saturation \o portfolio

\* SimpleMMInsights.generateInsights, from the awaited summary, info, curves
SimpleGenerateInsights(sum, info, curvesData) ==
    LET sorted == sortedByEfficiency(sum)
        topPerformer == sorted[1]
        underPerformer == sorted[Len(sorted)]
        hasTop == Len(sorted) >= 1
        \* underPerformer !== topPerformer: the same array entry only when
        \* the sorted array has a single element
        differ == Len(sorted) >= 2
        stats == EfficiencyStats(curvesData.curves)
        near == nearSaturation(curvesData.curves)
    IN  Pushed(
          IF hasTop
          THEN <<Insight("success", "top performer", topPerformer.name,
                         0, 0, 0, <<>>)>>
          ELSE <<>>,
          IF hasTop /\ differ
          THEN <<Insight("warning", "underperforming", underPerformer.name,
                         0, 0, 0, <<>>)>>
          ELSE <<>>,
          IF hasTop /\ differ
          THEN <<Insight("info", "Budget Optimization Opportunity", 0,
                         underPerformer.name, topPerformer.name,
                         topPerformer.efficiency - underPerformer.efficiency,
                         <<>>)>>
          ELSE <<>>,
          IF Len(near) > 0
          THEN <<Insight("warning", "Saturation Alert", 0, 0, 0, 0, near)>>
          ELSE <<>>,
          <<Insight("info", "Portfolio Performance", 0, 0, 0, 0, <<>>)
              @@ [stats |-> stats, weeks |-> info.total_weeks,
                  nchannels |-> Len(info.channels)]>>)

RECURSIVE ShareOfFirst(_, _)
\* reduce over the first k sorted entries: the sum of their share numerators
ShareOfFirst(sorted, k) ==
    IF k = 0 \/ sorted = <<>> THEN 0
    ELSE Head(sorted).share_num + ShareOfFirst(Tail(sorted), k - 1)

\* MMMInsights.generateInsights, from the awaited summary and info
MMMGenerateInsights(sum, info) ==
    LET sorted == sortedByEfficiency(sum)
        topPerformer == sorted[1]
        underPerformer == sorted[Len(sorted)]
        hasTop == Len(sorted) >= 1
        \* topChannelsShare < 0.6, with the shares over the common
        \* denominator share_den (NaN, never < 0.6, when it is 0)
        lowShare == IF ~hasTop THEN TRUE
                    ELSE /\ topPerformer.share_den > 0
                         /\ 10 * ShareOfFirst(sorted, 3)
                                < 6 * topPerformer.share_den
    IN  (IF hasTop
         THEN <<Insight("success", "top performer", topPerformer.name,
                        0, 0, 0, <<>>)>>
         ELSE <<>>)
        \o
        (IF hasTop /\ underPerformer.efficiency < LowEfficiencyThreshold
         THEN <<Insight("warning", "needs optimization", underPerformer.name,
                        0, 0, 0, <<>>)>>
         ELSE <<>>)
        \o
        (IF lowShare
         THEN <<Insight("info", "Budget distribution opportunity", 0,
                        0, 0, 0, <<>>)>>
         ELSE <<>>)
        \o
        <<Insight("info", "Model Coverage", 0, 0, 0, 0, <<>>)>>

InsightsStart ==
    /\ stage = "mounted"
    /\ component = "none"
    /\ summary = <<>>
    /\ insights = <<>>

InsightsInit ==
    /\ InsightsStart
    /\ \E n \in 1..MaxChannels :
          \E e \in [1..n -> EffValues], st \in [1..n -> SatValues], h \in 0..n :
              model = ModelOf(n, e, st, h)

\* the insight components as the loader runs find them: not mounted
InsightsParked == InsightsStart /\ model = NoModel

\* SimpleMMInsights mounts with a token: generateInsights awaits the channel
\* summary, the model info and the response curves, then sets the insights
SimpleMMInsights ==
    /\ stage = "mounted"
    /\ stage' = "rendered"
    /\ component' = "SimpleMMInsights"
    /\ summary' = getChannelSummary(model)
    /\ insights' = SimpleGenerateInsights(getChannelSummary(model),
                                          getMMMInfo(model),
                                          getResponseCurves(model))
    /\ UNCHANGED <<model, outsideInsights>>

\* MMMInsights mounts: generateInsights awaits the channel summary and the
\* model info, then sets the insights
MMMInsights ==
    /\ stage = "mounted"
    /\ stage' = "rendered"
    /\ component' = "MMMInsights"
    /\ summary' = getChannelSummary(model)
    /\ insights' = MMMGenerateInsights(getChannelSummary(model), getMMMInfo(model))
    /\ UNCHANGED <<model, outsideInsights>>

(***************************************************************************)
(* Part 3: channel queries through the useMMMData hook                     *)
(*                                                                         *)
(* A client calls getContribution(channel), getResponseCurves(channel) or  *)
(* getChannelSummary(); each call fetches from the analytics service,      *)
(* which answers from the loaded model. Calls of different clients         *)
(* interleave; the client holds a valid token throughout.                  *)
(***************************************************************************)
\* a channel argument is a string; it is kept as the part before its first
\* "&" or "#" (base: a channel number, 0 for the empty part) and the rest
\* (tail, "" when the string has no such character)
Name(base, tail) == [base |-> base, tail |-> tail]

\* the channel argument left out (undefined, or the empty string)
EmptyName == Name(0, "")

\* the service was given no channel parameter
NoChannel == 0

NoRequest == [kind |-> "none", channel |-> EmptyName]

NoResult == [thrown |-> FALSE, status |-> 0, message |-> "", data |-> <<>>]

\* the service's answer to GET /mmm/contribution[?channel=name]
ContributionResponse(m, channel) ==
    IF channel = NoChannel
    THEN [status |-> 200, body |-> getContribution(m)]
    ELSE IF channel \in 1..m.n
         THEN [status |-> 200,
               body |-> [channels |-> <<channel>>,
                         summary |-> [ch \in {channel} |->
                                         getContribution(m).summary[ch]]]]
         ELSE [status |-> 404, body |-> <<>>]

\* the service's answer to GET /mmm/response-curves[?channel=name]
CurvesResponse(m, channel) ==
    IF channel = NoChannel
    THEN [status |-> 200, body |-> getResponseCurves(m)]
    ELSE IF channel \in 1..m.n
         THEN [status |-> 200,
               body |-> [curves |-> [ch \in {channel} |->
                                        getResponseCurves(m).curves[ch]]]]
         ELSE [status |-> 404, body |-> <<>>]

\* a service that consumes the contribution totals it has served
ArtifactAfterQueryConsuming(m, kind) ==
    [m EXCEPT !.total = [ch \in 1..m.n |-> 0]]

\* the model after the service answered a query: queries only read it
ArtifactAfterQuery(m, kind) == m

\* `channel ? url + "?channel=" + channel : url`: the query string of the
\* request, the argument appended as it is
ChannelParam(channel) ==
    IF channel # EmptyName
    THEN [present |-> TRUE, text |-> channel]
    ELSE [present |-> FALSE, text |-> EmptyName]

\* the value the service reads for the parameter channel: the query string
\* up to the first "&" or "#"
QueryValue(param) == IF param.present THEN param.text.base ELSE NoChannel

\* fetchWithAuth with a token: throws unless response.ok
fetchWithAuth(response) ==
    IF response.status # 200
    THEN [thrown |-> TRUE, status |-> response.status,
          message |-> IF response.status = 401
                      THEN "Authentication failed. Please log in again."
                      ELSE "HTTP error! status",
          data |-> <<>>]
    ELSE [thrown |-> FALSE, status |-> response.status, message |-> "",
          data |-> response.body]

\* what getContribution / getResponseCurves gives its caller
QueryResult(m, req) ==
    IF req.kind = "contribution"
    THEN fetchWithAuth(ContributionResponse(m, QueryValue(ChannelParam(req.channel))))
    ELSE fetchWithAuth(CurvesResponse(m, QueryValue(ChannelParam(req.channel))))

QueriesStart ==
    /\ qpc = [k \in Clients |-> "idle"]
    /\ qreq = [k \in Clients |-> NoRequest]
    /\ qres = [k \in Clients |-> NoResult]
    /\ hookError = [k \in Clients |-> "null"]

\* the hook as the other runs find it: no query made
QueriesParked == QueriesStart /\ published = NoModel

\* getContribution(channel) / getResponseCurves(channel) is called:
\* setLoading(true), setError(null), the request goes out
Query(k, kind, channel) ==
    /\ qpc[k] = "idle"
    /\ qpc' = [qpc EXCEPT ![k] = "fetching"]
    /\ qreq' = [qreq EXCEPT ![k] = [kind |-> kind, channel |-> channel]]
    /\ hookError' = [hookError EXCEPT ![k] = "null"]
    /\ UNCHANGED <<model, published, qres, outsideQueries>>

\* getChannelSummary() is called
QuerySummary(k) ==
    /\ qpc[k] = "idle"
    /\ qpc' = [qpc EXCEPT ![k] = "fetching"]
    /\ qreq' = [qreq EXCEPT ![k] = [kind |-> "summary", channel |-> EmptyName]]
    /\ hookError' = [hookError EXCEPT ![k] = "null"]
    /\ UNCHANGED <<model, published, qres, outsideQueries>>

\* the service answers and the awaited fetch settles: the hook returns the
\* parsed body, or sets its error state and rethrows
Settle(k) ==
    /\ qpc[k] = "fetching"
    /\ qreq[k].kind \in {"contribution", "curves"}
    /\ LET r == QueryResult(model, qreq[k]) IN
       /\ qres' = [qres EXCEPT ![k] = r]
       /\ hookError' = [hookError EXCEPT ![k] =
                           IF r.thrown THEN r.message ELSE @]
    /\ model' = ArtifactAfterQuery(model, qreq[k].kind)
    /\ qpc' = [qpc EXCEPT ![k] = "done"]
    /\ UNCHANGED <<published, qreq, outsideQueries>>

\* getChannelSummary: the Promise.all of the contribution and the curves
\* fetch settles; the channels are fetched next
SettleSummaryData(k) ==
    /\ qpc[k] = "fetching"
    /\ qreq[k].kind = "summary"
    /\ qres' = [qres EXCEPT ![k] =
                   [NoResult EXCEPT !.data =
                       [contributionData |->
                            fetchWithAuth(ContributionResponse(model, NoChannel)).data,
                        responseCurvesData |->
                            fetchWithAuth(CurvesResponse(model, NoChannel)).data]]]
    /\ model' = ArtifactAfterQuery(model, "summary")
    /\ qpc' = [qpc EXCEPT ![k] = "channels"]
    /\ UNCHANGED <<published, qreq, hookError, outsideQueries>>

\* getChannelSummary: getChannels() settles and the summary is built
SettleSummary(k) ==
    /\ qpc[k] = "channels"
    /\ qres' = [qres EXCEPT ![k] =
                   [NoResult EXCEPT !.status = 200, !.data =
                       SelectEntries(getChannels(model),
                                     qres[k].data.contributionData,
                                     qres[k].data.responseCurvesData, 1)]]
    /\ model' = ArtifactAfterQuery(model, "channels")
    /\ qpc' = [qpc EXCEPT ![k] = "done"]
    /\ UNCHANGED <<published, qreq, hookError, outsideQueries>>

\* the caller has taken the result (or caught the error)
QueryDone(k) ==
    /\ qpc[k] = "done"
    /\ qpc' = [qpc EXCEPT ![k] = "idle"]
    /\ qreq' = [qreq EXCEPT ![k] = NoRequest]
    /\ qres' = [qres EXCEPT ![k] = NoResult]
    /\ UNCHANGED <<model, published, hookError, outsideQueries>>

\* the channel arguments a client passes: none, a name of the model, a
\* name the model does not have, and a name of the model followed by "&x"
DoesNotExist == model.n + 1

ChannelArgs == {EmptyName, Name(1, ""), Name(DoesNotExist, ""), Name(1, "&x")}

\* the argument is the name of one of the model's channels
InChannelSet(channel) == channel.tail = "" /\ channel.base \in 1..model.n

(***************************************************************************)
(* Part 4: the calculations of the data processor and the curve generator  *)
(*                                                                         *)
(* Money is in whole dollars, ROI in hundredths, contributions in          *)
(* hundredths of a dollar. A response is kept as a fraction num / den.     *)
(***************************************************************************)
RoiValues == {0, 83, 158}
SpendValues == {0, 1000, 2000, 3000}
ResponseSteps == {0, 1, 5, 10, 20}
SaturationPercent == 10

RECURSIVE SumSeq(_)
SumSeq(q) == IF q = <<>> THEN 0 ELSE Head(q) + SumSeq(Tail(q))

\* contributions = channel_roi + channel_spend_over_time
calculate_channel_contributions_added(channel_roi, channel_spend_over_time) ==
    [t \in 1..Len(channel_spend_over_time) |->
        channel_roi + channel_spend_over_time[t]]

\* contributions = channel_roi * channel_spend_over_time (elementwise)
calculate_channel_contributions(channel_roi, channel_spend_over_time) ==
    [t \in 1..Len(channel_spend_over_time) |->
        channel_roi * channel_spend_over_time[t]]

\* the summary of a contribution series
ContributionSummary(contributions) ==
    [total |-> SumSeq(contributions),
     max |-> CHOOSE x \in {contributions[t] : t \in 1..Len(contributions)} :
                \A t \in 1..Len(contributions) : contributions[t] <= x,
     min |-> CHOOSE x \in {contributions[t] : t \in 1..Len(contributions)} :
                \A t \in 1..Len(contributions) : contributions[t] >= x]

RECURSIVE Pow(_, _)
Pow(b, e) == IF e = 0 THEN 1 ELSE b * Pow(b, e - 1)

\* the sample points: NSamples spends evenly spaced from 0
SpendSamples(step) == [i \in 1..NSamples |-> (i - 1) * step]

\* response = ec**slope / (ec**slope + spend**slope)
calculate_response_curve_inverted(spend, slope, ec) ==
    [i \in 1..Len(spend) |->
        [num |-> Pow(ec, slope),
         den |-> Pow(ec, slope) + Pow(spend[i], slope)]]

\* response = spend**slope / (ec**slope + spend**slope)
calculate_response_curve(spend, slope, ec) ==
    [i \in 1..Len(spend) |->
        [num |-> Pow(spend[i], slope),
         den |-> Pow(ec, slope) + Pow(spend[i], slope)]]

\* np.diff(response) / np.diff(spend): the marginal return arriving at
\* sample k (k >= 2); the spends are evenly spaced, so every marginal has
\* the same denominator and is kept as its numerator
marginal_returns(response) ==
    [k \in 2..Len(response) |-> response[k] - response[k - 1]]

MaxOf(f) == CHOOSE x \in {f[k] : k \in DOMAIN f} : \A k \in DOMAIN f : f[k] <= x

\* the marginal return is below 10% of the maximum
BelowThreshold(m, k) == 100 * m[k] < SaturationPercent * MaxOf(m)

RECURSIVE LastNotBelow(_, _)
\* scanning back from sample k: the last sample whose marginal return is
\* not below the threshold
LastNotBelow(m, k) ==
    IF k < 2 THEN 1
    ELSE IF BelowThreshold(m, k) THEN LastNotBelow(m, k - 1) ELSE k

RECURSIVE FirstBelow(_, _, _)
FirstBelow(m, k, n) ==
    IF k > n THEN n
    ELSE IF BelowThreshold(m, k) THEN k ELSE FirstBelow(m, k + 1, n)

\* the first sample whose marginal return is below the threshold
find_saturation_point_first_below(spend, response) ==
    LET m == marginal_returns(response)
        k == FirstBelow(m, 2, Len(response))
    IN [saturation_point |-> spend[k],
        saturated |-> BelowThreshold(m, k)]

\* the saturation point: the sample after which every marginal return is
\* below the threshold; the last sample, flagged unsaturated, when there is
\* no sample after it
find_saturation_point(spend, response) ==
    LET m == marginal_returns(response)
        k == LastNotBelow(m, Len(response))
    IN [saturation_point |-> spend[k],
        saturated |-> k < Len(response)]

RECURSIVE Cumulative(_)
\* the response samples whose successive increases are the given steps
Cumulative(steps) ==
    IF steps = <<>> THEN <<0>>
    ELSE LET r == Cumulative(SubSeq(steps, 1, Len(steps) - 1))
         IN Append(r, r[Len(r)] + steps[Len(steps)])

CalcStart == calcStage = "pending" /\ calcOut = <<>>

\* the calculations as the other runs find them: none requested
CalcParked == CalcStart /\ calcIn = [op |-> "none"]

\* a contribution query computes a channel's series and its summary
ComputeContributions ==
    /\ calcStage = "pending"
    /\ calcIn.op = "contributions"
    /\ LET c == calculate_channel_contributions(calcIn.roi, calcIn.spend)
       IN calcOut' = [contributions |-> c, summary |-> ContributionSummary(c)]
    /\ calcStage' = "done"
    /\ UNCHANGED <<calcIn, outsideCalc>>

\* a curve query samples the channel's response curve
ComputeResponseCurve ==
    /\ calcStage = "pending"
    /\ calcIn.op = "curve"
    /\ LET spend == SpendSamples(calcIn.step)
       IN calcOut' = [spend |-> spend,
                      response |-> calculate_response_curve(spend, calcIn.slope,
                                                            calcIn.ec)]
    /\ calcStage' = "done"
    /\ UNCHANGED <<calcIn, outsideCalc>>

\* a curve query finds the saturation point of a sampled curve
ComputeSaturationPoint ==
    /\ calcStage = "pending"
    /\ calcIn.op = "saturation"
    /\ calcOut' = find_saturation_point(calcIn.spend, calcIn.response)
    /\ calcStage' = "done"
    /\ UNCHANGED <<calcIn, outsideCalc>>

(***************************************************************************)
(* Part 5: the auth store, the dashboard page and an MMM chart             *)
(*                                                                         *)
(* The store useAuth (zustand with persist, name 'auth-storage') holds     *)
(* user and token; DashboardPage and AuthProvider read it and run their    *)
(* effects when a dependency changed; SimpleContributionChart fetches its  *)
(* data from an effect that depends on the token.  A token is "valid",     *)
(* "expired" (the service answers 401) or "null".                          *)
(***************************************************************************)
NoDeps == <<>>

Tokens == {"valid", "expired"}

\* what localStorage may hold when the page is opened
StoredStates ==
    {[user |-> "null", token |-> "null"],
     [user |-> "u", token |-> "valid"],
     [user |-> "u", token |-> "expired"]}

\* DashboardPage as first written: the content whenever the store has a user
DashboardRenderUserOnly(h, t, u) ==
    IF u = "null" THEN "loading" ELSE "content"

\* DashboardPage, what it renders from the store's values
DashboardRender(h, t, u) ==
    IF ~h \/ (t # "null" /\ u = "null") THEN "loading"
    ELSE IF t = "null" THEN "nothing"
    ELSE "content"

\* the effect of DashboardPage that never leaves the page
DashboardEffectBodyStays(h, t, u) ==
    IF ~h THEN "wait"
    ELSE IF t # "null" /\ u = "null" THEN "checkAuth"
    ELSE "nothing"

\* DashboardPage, what its effect does with the store's values
DashboardEffectBody(h, t, u) ==
    IF ~h THEN "wait"
    ELSE IF t = "null" THEN "redirect"
    ELSE IF u = "null" THEN "checkAuth"
    ELSE "nothing"

\* the MMM components are children of the page's content
ChartHosted(s, r, h, t, u) ==
    s \/ (r = "/dashboard" /\ DashboardRender(h, t, u) = "content")

\* an effect with an empty dependency array runs on mount only
EffectDepsChangedOnMount(deps, t) == deps = "unmounted"

\* the chart's effect depends on [token]: it runs on mount and whenever the
\* token differs from the one it last ran with
EffectDepsChanged(deps, t) == deps # t

\* the guard of the chart's effect: if (!token) return
TokenGuard(t) == t # "null"

\* fetchWithAuth throws 'No authentication token' before any fetch
RequestsIssued(t) == IF t = "null" THEN {} ELSE {t}

\* checkAuth reads the token and returns at once when there is none
checkAuthStarted(t) == IF t = "null" THEN {} ELSE {t}

\* a chart that is no longer rendered is unmounted and loses its state
ChartFollows ==
    LET hosted == ChartHosted(standalone', route', isHydrated', token', user')
    IN /\ chartDeps' = IF hosted THEN chartDeps ELSE "unmounted"
       /\ chartFetched' = IF hosted THEN chartFetched ELSE "none"

\* persist writes the partialized state after every set
Set(u, t) ==
    /\ user' = u
    /\ token' = t
    /\ storage' = [user |-> u, token |-> t]

PageStart ==
    /\ token = "null"
    /\ user = "null"
    /\ isHydrated = FALSE
    /\ pageDeps = NoDeps
    /\ providerDeps = NoDeps
    /\ inflight = {}
    /\ chartDeps = "unmounted"
    /\ chartFetched = "none"
    /\ issuedWith = {}

\* no page is open
PageParked ==
    /\ PageStart
    /\ storage = [user |-> "null", token |-> "null"]
    /\ route = "/login"
    /\ standalone = FALSE

\* the store is rehydrated from localStorage
Hydrate ==
    /\ ~isHydrated
    /\ isHydrated' = TRUE
    /\ user' = storage.user
    /\ token' = storage.token
    /\ UNCHANGED <<storage, route, pageDeps, providerDeps, inflight, standalone,
                   issuedWith, outsidePage>>
    /\ ChartFollows

\* the effect of DashboardPage runs after a render in which a dependency
\* changed
DashboardEffect ==
    /\ route = "/dashboard"
    /\ pageDeps # <<token, isHydrated, user>>
    /\ LET body == DashboardEffectBody(isHydrated, token, user)
       IN /\ route' = IF body = "redirect" THEN "/login" ELSE route
          /\ pageDeps' = IF body = "redirect" THEN NoDeps
                         ELSE <<token, isHydrated, user>>
          /\ inflight' = IF body = "checkAuth"
                         THEN inflight \cup checkAuthStarted(token)
                         ELSE inflight
    /\ UNCHANGED <<token, user, isHydrated, storage, providerDeps, standalone,
                   issuedWith, outsidePage>>
    /\ ChartFollows

\* the effect of AuthProvider: checkAuth once hydrated with a token
AuthProviderEffect ==
    /\ providerDeps # <<isHydrated, token>>
    /\ providerDeps' = <<isHydrated, token>>
    /\ inflight' = IF isHydrated /\ token # "null"
                   THEN inflight \cup checkAuthStarted(token)
                   ELSE inflight
    /\ UNCHANGED <<token, user, isHydrated, storage, route, pageDeps,
                   standalone, chartDeps, chartFetched, issuedWith,
                   outsidePage>>

\* /auth/me answers a checkAuth: the user when the token is good, else the
\* store is cleared
CheckAuthSettle(t, ok) ==
    /\ t \in inflight
    /\ ok => t = "valid"
    /\ inflight' = inflight \ {t}
    /\ IF ok THEN Set("u", token) ELSE Set("null", "null")
    /\ UNCHANGED <<isHydrated, route, pageDeps, providerDeps, standalone,
                   issuedWith, outsidePage>>
    /\ ChartFollows

\* handleLogout, from the button of the page's header
Logout ==
    /\ route = "/dashboard"
    /\ DashboardRender(isHydrated, token, user) = "content"
    /\ Set("null", "null")
    /\ route' = "/login"
    /\ pageDeps' = NoDeps
    /\ UNCHANGED <<isHydrated, providerDeps, inflight, standalone, issuedWith,
                   outsidePage>>
    /\ ChartFollows

\* a successful login from the login page
Login ==
    /\ route = "/login"
    /\ Set("u", "valid")
    /\ UNCHANGED <<isHydrated, route, pageDeps, providerDeps, inflight,
                   standalone, issuedWith, outsidePage>>
    /\ ChartFollows

\* the visitor opens the dashboard page
Visit ==
    /\ route = "/login"
    /\ route' = "/dashboard"
    /\ UNCHANGED <<token, user, isHydrated, storage, pageDeps, providerDeps,
                   inflight, standalone, issuedWith, outsidePage>>
    /\ ChartFollows

\* the effect of SimpleContributionChart: fetchData unless there is no token
ChartEffect ==
    /\ ChartHosted(standalone, route, isHydrated, token, user)
    /\ EffectDepsChanged(chartDeps, token)
    /\ chartDeps' = token
    /\ IF TokenGuard(token)
       THEN /\ issuedWith' = issuedWith \cup RequestsIssued(token)
            /\ chartFetched' = token
       ELSE UNCHANGED <<issuedWith, chartFetched>>
    /\ UNCHANGED <<token, user, isHydrated, storage, route, pageDeps,
                   providerDeps, inflight, standalone, outsidePage>>

(***************************************************************************)
(* Part 6: the figures of SimpleContributionChart                          *)
(*                                                                         *)
(* The chart maps the entries of the channel summary to bars, sorts them   *)
(* by value and keeps the first TopShown; its figures are computed from    *)
(* the bars.  Contributions are in tenths, bar values in units.            *)
(***************************************************************************)
TopShown == 6

ContributionValues == {4, 10000, 20000}

\* Math.round of a non-negative number given in tenths
MathRound(tenths) == (tenths + 5) \div 10

RECURSIVE InsertByValue(_, _)
\* chartData.sort((a, b) => b.value - a.value), a stable sort
InsertByValue(sorted, e) ==
    IF sorted = <<>> THEN <<e>>
    ELSE IF Head(sorted).value - e.value >= 0
         THEN <<Head(sorted)>> \o InsertByValue(Tail(sorted), e)
         ELSE <<e>> \o sorted

RECURSIVE SortByValue(_)
SortByValue(items) ==
    IF items = <<>> THEN <<>>
    ELSE InsertByValue(SortByValue(SubSeq(items, 1, Len(items) - 1)),
                       items[Len(items)])

\* Array.prototype.slice(0, k)
Slice(items, k) == SubSeq(items, 1, IF Len(items) < k THEN Len(items) ELSE k)

\* the bars fetchData sets: one per entry of the summary, sorted, top six
chartDataOf(entries) ==
    Slice(SortByValue([i \in 1..Len(entries) |->
                          [name |-> entries[i].name,
                           value |-> MathRound(entries[i].total_contribution)]]),
          TopShown)

\* data.reduce((sum, item) => sum + item.value, 0)
totalContribution(items) == SumSeq([i \in 1..Len(items) |-> items[i].value])

ChartStart ==
    /\ data = <<>>
    /\ chartStage = "fetching"

\* no chart is computing its figures
ChartParked == ChartStart /\ chartSummary = <<>>

\* fetchData: the summary has arrived, the bars are set
FetchData ==
    /\ chartStage = "fetching"
    /\ data' = chartDataOf(chartSummary)
    /\ chartStage' = "shown"
    /\ UNCHANGED <<chartSummary, outsideChart>>

(***************************************************************************)
(* Part 7: RegisterForm                                                    *)
(*                                                                         *)
(* A string is the sequence of its characters.                             *)
(***************************************************************************)
Fields == {"email", "username", "password", "confirmPassword", "fullName"}

EmailValues == {<<>>, <<"a", "b">>, <<"a", "@", "b">>}

UsernameValues == {<<>>, <<"a", "b">>, <<"a", "b", "c">>}

PasswordValues ==
    {<<>>, <<"s", "e", "c", "r", "e">>, <<"s", "e", "c", "r", "e", "t">>,
     <<"p", "a", "s", "s", "w", "d">>}

FullNameValues == {<<>>, <<"T">>}

FieldValues(name) ==
    CASE name = "email" -> EmailValues
      [] name = "username" -> UsernameValues
      [] name = "password" -> PasswordValues
      [] name = "confirmPassword" -> PasswordValues
      [] name = "fullName" -> FullNameValues

NoSubmit == [email |-> <<>>, username |-> <<>>, password |-> <<>>,
             fullName |-> "none"]

\* String.prototype.includes for a single character
includes(str, ch) == \E i \in 1..Len(str) : str[i] = ch

\* validateForm that does not compare the two passwords
validateFormNoConfirm(fd) ==
    [name \in Fields |->
        CASE name = "email" /\ ~includes(fd.email, "@") ->
                 "Please enter a valid email address"
          [] name = "username" /\ Len(fd.username) < 3 ->
                 "Username must be at least 3 characters long"
          [] name = "password" /\ Len(fd.password) < 6 ->
                 "Password must be at least 6 characters long"
          [] OTHER -> ""]

\* validateForm: the errors object, a field without a key has ""
validateForm(fd) ==
    [name \in Fields |->
        CASE name = "email" /\ ~includes(fd.email, "@") ->
                 "Please enter a valid email address"
          [] name = "username" /\ Len(fd.username) < 3 ->
                 "Username must be at least 3 characters long"
          [] name = "password" /\ Len(fd.password) < 6 ->
                 "Password must be at least 6 characters long"
          [] name = "confirmPassword" /\ fd.password # fd.confirmPassword ->
                 "Passwords do not match"
          [] OTHER -> ""]

\* Object.keys(errors).length === 0
NoErrors(errors) == \A name \in Fields : errors[name] = ""

\* the object handed to onSubmit; fullName || undefined
submitData(fd) ==
    [email |-> fd.email, username |-> fd.username, password |-> fd.password,
     fullName |-> IF fd.fullName = <<>> THEN "undefined" ELSE fd.fullName]

FormStart ==
    /\ formData = [name \in Fields |-> <<>>]
    /\ validationErrors = [name \in Fields |-> ""]
    /\ submitted = NoSubmit
    /\ calls = 0

FormParked == FormStart

\* handleChange: the field takes the typed value and its error is cleared
handleChange(name, value) ==
    /\ formData' = [formData EXCEPT ![name] = value]
    /\ validationErrors' = [validationErrors EXCEPT ![name] = ""]
    /\ UNCHANGED <<submitted, calls, outsideForm>>

\* handleSubmit: validate, and call onSubmit when there is no error
handleSubmit ==
    /\ calls < MaxSubmits
    /\ validationErrors' = validateForm(formData)
    /\ IF NoErrors(validateForm(formData))
       THEN /\ submitted' = submitData(formData)
            /\ calls' = calls + 1
       ELSE UNCHANGED <<submitted, calls>>
    /\ UNCHANGED <<formData, outsideForm>>

(***************************************************************************)
(* Part 8: the actions of the auth store with their network waits          *)
(*                                                                         *)
(* login, register and checkAuth await a fetch; between the call and the   *)
(* answer any other action of the store may run.  A request in flight      *)
(* keeps what its call captured: checkAuth the token it read, every        *)
(* request the number of logouts before it started.                        *)
(***************************************************************************)
\* the access tokens the service issues, one per session
SessionToken(i) == <<"t1", "t2", "t3", "t4">>[i]

\* the page state that the store's actions do not set
besideStore == <<isHydrated, route, pageDeps, providerDeps, inflight,
                 standalone, chartDeps, chartFetched, issuedWith>>

\* the variables that neither the page nor the store's requests use
outsideStore == <<loaderVars, insightVars, queryVars, calcVars, chartVars,
                  formVars,
    hookVars,
    exportVars,
    mountVars>>

outsideHook == <<loaderVars,
    insightVars,
    queryVars,
    calcVars,
    pageVars,
    chartVars,
    formVars,
    authVars,
    exportVars,
    mountVars>>

outsideExport == <<loaderVars,
    insightVars,
    queryVars,
    calcVars,
    pageVars,
    chartVars,
    formVars,
    authVars,
    hookVars,
    mountVars>>

outsideMount == <<loaderVars,
    insightVars,
    queryVars,
    calcVars,
    pageVars,
    chartVars,
    formVars,
    authVars,
    hookVars,
    exportVars>>

AuthStart ==
    /\ requests = {}
    /\ logouts = 0
    /\ issued = 0
    /\ isLoading = FALSE
    /\ loggedOut = FALSE

AuthParked == AuthStart

\* login or register is called: isLoading is set and the request leaves
CredentialsStart(kind) ==
    /\ Cardinality(requests) < MaxPending
    /\ isLoading' = TRUE
    /\ requests' = requests \cup {[kind |-> kind, sent |-> "none",
                                   epoch |-> logouts]}
    /\ UNCHANGED <<token, user, storage, logouts, issued, loggedOut,
                   besideStore, outsideStore>>

\* login or register is answered: the session of the answer is stored, or
\* the error is rethrown
CredentialsSettle(r, ok) ==
    /\ r \in requests
    /\ r.kind \in {"login", "register"}
    /\ ok => issued < MaxSessions
    /\ requests' = requests \ {r}
    /\ isLoading' = FALSE
    /\ IF ok
       THEN /\ Set("u", SessionToken(issued + 1))
            /\ issued' = issued + 1
            /\ loggedOut' = IF r.epoch = logouts THEN FALSE ELSE loggedOut
       ELSE UNCHANGED <<token, user, storage, issued, loggedOut>>
    /\ UNCHANGED <<logouts, besideStore, outsideStore>>

\* logout: set({ user: null, token: null })
StoreLogout ==
    /\ logouts < MaxLogouts
    /\ Set("null", "null")
    /\ logouts' = logouts + 1
    /\ loggedOut' = TRUE
    /\ UNCHANGED <<requests, issued, isLoading, besideStore, outsideStore>>

\* checkAuth is called: it reads the token and asks /auth/me with it
CheckAuthStart ==
    /\ token # "null"
    /\ Cardinality(requests) < MaxPending
    /\ requests' = requests \cup {[kind |-> "checkAuth", sent |-> token,
                                   epoch |-> logouts]}
    /\ UNCHANGED <<token, user, storage, logouts, issued, isLoading,
                   loggedOut, besideStore, outsideStore>>

\* /auth/me answers: set({ user }) when ok, else the store is cleared
CheckAuthAnswer(r, ok) ==
    /\ r \in requests
    /\ r.kind = "checkAuth"
    /\ requests' = requests \ {r}
    /\ IF ok THEN Set("u", token) ELSE Set("null", "null")
    /\ UNCHANGED <<logouts, issued, isLoading, loggedOut, besideStore,
                   outsideStore>>

(***************************************************************************)
(* Part 9: one useMMMData hook serving a batch of concurrent calls         *)
(*                                                                         *)
(* A component calls several fetch methods of its hook inside one          *)
(* Promise.all: each call runs to its first await before any answer is     *)
(* handled.  All calls share the hook's loading and error state.           *)
(***************************************************************************)
Methods == {"getMMMInfo", "getResponseCurves", "getChannelSummary"}

Statuses == {200, 401, 500}

\* the Error a fetch rejects with, "null" when it resolves
ErrorOf(status) ==
    LET r == fetchWithAuth([status |-> status, body |-> <<>>])
    IN IF r.thrown THEN r.message ELSE "null"

InBatch == DOMAIN batch

AllStarted == \A i \in InBatch : batch[i].pc # "new"

InFlight(i) == batch[i].pc \in {"fetching", "channels"}

Settled(i) == batch[i].pc \in {"ok", "failed"}

HookStart ==
    /\ loading = FALSE
    /\ error = "null"

\* the hook of a component that makes no call
HookParked == HookStart /\ batch = <<>>

\* a fetch method is called: setLoading(true), setError(null), and the
\* request leaves
CallStart(i) ==
    /\ batch[i].pc = "new"
    /\ \A j \in InBatch : j < i => batch[j].pc # "new"
    /\ loading' = TRUE
    /\ error' = "null"
    /\ batch' = [batch EXCEPT ![i].pc = "fetching"]
    /\ UNCHANGED outsideHook

\* the fetch of getMMMInfo / getResponseCurves is answered: the catch sets
\* the error, the finally clears loading
FetchSettle(i, status) ==
    /\ AllStarted
    /\ batch[i].pc = "fetching"
    /\ batch[i].method # "getChannelSummary"
    /\ error' = IF status # 200 THEN ErrorOf(status) ELSE error
    /\ loading' = FALSE
    /\ batch' = [batch EXCEPT ![i].pc = IF status # 200 THEN "failed" ELSE "ok"]
    /\ UNCHANGED outsideHook

\* getChannelSummary: its Promise.all of two fetches is answered; when both
\* are ok it calls getChannels, which sets loading and clears the error
SummaryDataSettle(i, status) ==
    /\ AllStarted
    /\ batch[i].pc = "fetching"
    /\ batch[i].method = "getChannelSummary"
    /\ IF status # 200
       THEN /\ error' = ErrorOf(status)
            /\ loading' = FALSE
            /\ batch' = [batch EXCEPT ![i].pc = "failed"]
       ELSE /\ error' = "null"
            /\ loading' = TRUE
            /\ batch' = [batch EXCEPT ![i].pc = "channels"]
    /\ UNCHANGED outsideHook

\* getChannelSummary: its getChannels is answered; both finally blocks
\* clear loading, both catch blocks set the error
SummaryChannelsSettle(i, status) ==
    /\ batch[i].pc = "channels"
    /\ error' = IF status # 200 THEN ErrorOf(status) ELSE error
    /\ loading' = FALSE
    /\ batch' = [batch EXCEPT ![i].pc = IF status # 200 THEN "failed" ELSE "ok"]
    /\ UNCHANGED outsideHook

(***************************************************************************)
(* Part 10: exportInsights and the ExportDialog                            *)
(*                                                                         *)
(* localStorage holds the item 'auth-storage', written by the store's      *)
(* persist middleware, and may hold an item 'token', which nothing in the  *)
(* application writes.                                                     *)
(***************************************************************************)
ExportFormats == {"txt", "csv", "json"}

NoExport == [format |-> "none", authorization |-> "none"]

NoStatus == [type |-> "null", message |-> ""]

\* localStorage.getItem(key)
getItem(key, authStorage, item) ==
    CASE key = "auth-storage" -> authStorage
      [] key = "token" -> item
      [] OTHER -> "null"

\* exportInsights: const token = localStorage.getItem('token')
exportToken(authStorage, item) == getItem("token", authStorage, item)

\* exportInsights up to its fetch: the request it issues, or the error it
\* throws without a token
exportInsights(format, authStorage, item) ==
    LET t == exportToken(authStorage, item)
    IN IF t = "null"
       THEN [thrown |-> TRUE, message |-> "Authentication required",
             request |-> NoExport]
       ELSE [thrown |-> FALSE, message |-> "",
             request |-> [format |-> format, authorization |-> <<"Bearer", t>>]]

\* format.toUpperCase() inside the success message
SuccessMessage(format) ==
    CASE format = "txt" -> "Successfully exported insights as TXT"
      [] format = "csv" -> "Successfully exported insights as CSV"
      [] format = "json" -> "Successfully exported insights as JSON"

\* the store of a logged-in user on the dashboard, everything settled
PageLoggedIn ==
    /\ token = "valid"
    /\ user = "u"
    /\ isHydrated = TRUE
    /\ storage = [user |-> "u", token |-> "valid"]
    /\ route = "/dashboard"
    /\ pageDeps = <<"valid", TRUE, "u">>
    /\ providerDeps = <<TRUE, "valid">>
    /\ inflight = {}
    /\ standalone = FALSE
    /\ chartDeps = "valid"
    /\ chartFetched = "valid"
    /\ issuedWith = {"valid"}

ExportStart ==
    /\ isOpen = FALSE
    /\ isExporting = FALSE
    /\ exportStatus = NoStatus
    /\ exporting = NoExport
    /\ timers = 0

\* no dialog is mounted
ExportParked == ExportStart /\ tokenItem = "null"

\* the trigger is clicked: onOpenChange(true)
OpenDialog ==
    /\ ~isOpen
    /\ isOpen' = TRUE
    /\ UNCHANGED <<tokenItem, isExporting, exportStatus, exporting, timers,
                   outsideExport>>

\* the user closes the dialog: onOpenChange(false)
CloseDialog ==
    /\ isOpen
    /\ isOpen' = FALSE
    /\ UNCHANGED <<tokenItem, isExporting, exportStatus, exporting, timers,
                   outsideExport>>

\* handleExport(format), from a format button (disabled while exporting):
\* the status is cleared and exportInsights is called; without a token it
\* throws at once and the catch and the finally run
handleExport(format) ==
    /\ isOpen
    /\ ~isExporting
    /\ LET call == exportInsights(format, storage, tokenItem)
       IN IF call.thrown
          THEN /\ exportStatus' = [type |-> "error", message |-> call.message]
               /\ isExporting' = FALSE
               /\ exporting' = NoExport
          ELSE /\ exportStatus' = NoStatus
               /\ isExporting' = TRUE
               /\ exporting' = call.request
    /\ UNCHANGED <<tokenItem, isOpen, timers, outsideExport>>

\* the export request is answered: success starts the auto-close timer,
\* failure shows the error; the finally clears isExporting
ExportSettle(ok) ==
    /\ exporting # NoExport
    /\ ok => timers < MaxTimers
    /\ exportStatus' = IF ok
                       THEN [type |-> "success",
                             message |-> SuccessMessage(exporting.format)]
                       ELSE [type |-> "error", message |-> "Export failed"]
    /\ timers' = IF ok THEN timers + 1 ELSE timers
    /\ isExporting' = FALSE
    /\ exporting' = NoExport
    /\ UNCHANGED <<tokenItem, isOpen, outsideExport>>

\* an auto-close timer fires, 2000 ms after the success that set it
TimerFire ==
    /\ timers > 0
    /\ timers' = timers - 1
    /\ isOpen' = FALSE
    /\ exportStatus' = NoStatus
    /\ UNCHANGED <<tokenItem, isExporting, exporting, outsideExport>>

(***************************************************************************)
(* Part 11: ContributionChart and the effect that fetches its data         *)
(*                                                                         *)
(* The effect depends on [getChannelSummary], which useMMMData creates     *)
(* anew on every render: every render is followed by a run of the effect.  *)
(* A render happens when a state setter is given a value that differs      *)
(* from the current one.  The backend answers every request with 200.      *)
(***************************************************************************)
\* the variables that neither the hook nor the component uses
outsideFetching == <<loaderVars, insightVars, queryVars, calcVars, pageVars,
                     chartVars, formVars, authVars, exportVars>>

\* a setter called with a value other than the current one causes a render
Rerenders(current, value) == current # value

\* the calls of getChannelSummary not yet settled
InFlightCount == awaitingData + awaitingChannels

MountStart ==
    /\ awaitingData = 0
    /\ awaitingChannels = 0
    /\ chart = "empty"

\* no ContributionChart is mounted
MountParked == MountStart /\ effectPending = FALSE

\* the effect runs: fetchData calls getChannelSummary, which sets loading,
\* clears the error and starts its two fetches
RunEffect ==
    /\ effectPending
    /\ InFlightCount < MaxInFlight
    /\ effectPending' = (Rerenders(loading, TRUE) \/ Rerenders(error, "null"))
    /\ loading' = TRUE
    /\ error' = "null"
    /\ awaitingData' = awaitingData + 1
    /\ UNCHANGED <<awaitingChannels, chart, batch, outsideFetching>>

\* the two fetches of a getChannelSummary are answered: it calls
\* getChannels, which sets loading and clears the error
SummaryDataAnswered ==
    /\ awaitingData > 0
    /\ effectPending' = (effectPending \/ Rerenders(loading, TRUE)
                            \/ Rerenders(error, "null"))
    /\ loading' = TRUE
    /\ error' = "null"
    /\ awaitingData' = awaitingData - 1
    /\ awaitingChannels' = awaitingChannels + 1
    /\ UNCHANGED <<chart, batch, outsideFetching>>

\* getChannels is answered: loading is cleared, the summary is returned
\* and fetchData sets the chart's data, a new array
SummaryAnswered ==
    /\ awaitingChannels > 0
    /\ effectPending' = TRUE
    /\ loading' = FALSE
    /\ chart' = "set"
    /\ awaitingChannels' = awaitingChannels - 1
    /\ UNCHANGED <<error, awaitingData, batch, outsideFetching>>

(***************************************************************************)
(* Specifications                                                          *)
(***************************************************************************)
NextInsights == SimpleMMInsights \/ MMMInsights

InitInsights ==
    LoaderParked /\ InsightsInit /\ QueriesParked /\ CalcParked /\ PageParked /\ ChartParked /\ FormParked /\ AuthParked /\ HookParked /\ ExportParked /\ MountParked

SpecInsights == InitInsights /\ [][NextInsights]_vars

Init ==
    LoaderInit /\ InsightsParked /\ QueriesParked /\ CalcParked /\ PageParked /\ ChartParked /\ FormParked /\ AuthParked /\ HookParked /\ ExportParked /\ MountParked

Next ==
    \/ \E c \in Callers : Call(c)
    \/ \E c \in Callers : Complete(c)
    \/ \E c \in Callers : Release(c)
    \/ Reset

\* request threads call the loader in any interleaving
Spec == Init /\ [][Next]_vars

\* sequential use: a call or a reset starts only when no call is in flight
NoneInFlight == \A c \in Callers : pc[c] # "loading"

SeqCall(c) == NoneInFlight /\ Call(c)

SeqReset == NoneInFlight /\ Reset

NextSeq ==
    \/ \E c \in Callers : SeqCall(c)
    \/ \E c \in Callers : Complete(c)
    \/ \E c \in Callers : Release(c)
    \/ SeqReset

SpecSeq == Init /\ [][NextSeq]_vars

NextTimeout ==
    \/ \E c \in Callers : Call(c)
    \/ \E c \in Callers : Complete(c)
    \/ \E c \in Callers : Release(c)
    \/ \E c \in Callers : Exceed(c)

\* loads that may run past the timeout: a physical load that is within
\* the timeout finishes; one that has run past it may never finish
SpecTimeout ==
    /\ Init
    /\ [][NextTimeout]_vars
    /\ \A c \in Callers : WF_vars(Complete(c) /\ ~exceeded[c])

\* the models the queries run against: one to MaxChannels channels
InitQueries ==
    /\ LoaderParked
    /\ InsightsStart
    /\ \E n \in 1..MaxChannels :
          \E e \in [1..n -> {100, 200}], h \in {0, 1} :
              model = ModelOf(n, e, [ch \in 1..n |-> 50000], h)
    /\ published = model
    /\ QueriesStart
    /\ CalcParked
    /\ PageParked /\ ChartParked /\ FormParked /\ AuthParked /\ HookParked /\ ExportParked /\ MountParked

NextQueries ==
    \/ \E k \in Clients : \E kind \in {"contribution", "curves"} :
          \E channel \in ChannelArgs : Query(k, kind, channel)
    \/ \E k \in Clients : QuerySummary(k)
    \/ \E k \in Clients : Settle(k)
    \/ \E k \in Clients : SettleSummaryData(k)
    \/ \E k \in Clients : SettleSummary(k)
    \/ \E k \in Clients : QueryDone(k)

\* clients query the service in any interleaving
SpecQueries == InitQueries /\ [][NextQueries]_vars

\* the inputs of the calculations: a channel's ROI and spend series; a
\* channel's Hill parameters and the spacing of the samples; a sampled curve
InitCalc ==
    /\ LoaderParked
    /\ InsightsParked
    /\ QueriesParked
    /\ PageParked /\ ChartParked /\ FormParked /\ AuthParked /\ HookParked /\ ExportParked /\ MountParked
    /\ CalcStart
    /\ \/ \E roi \in RoiValues : \E n \in 1..MaxPeriods :
             \E spend \in [1..n -> SpendValues] :
                calcIn = [op |-> "contributions", roi |-> roi, spend |-> spend]
       \/ \E slope \in 1..MaxSlope : \E ec \in 1..NSamples : \E step \in 1..2 :
             calcIn = [op |-> "curve", slope |-> slope, ec |-> ec, step |-> step]
       \/ \E steps \in [1..(NSamples - 1) -> ResponseSteps] :
             calcIn = [op |-> "saturation", spend |-> SpendSamples(1000),
                       response |-> Cumulative(steps)]

NextCalc ==
    \/ ComputeContributions
    \/ ComputeResponseCurve
    \/ ComputeSaturationPoint

SpecCalc == InitCalc /\ [][NextCalc]_vars

\* a visitor opens the dashboard or the login page, with whatever an
\* earlier session left in localStorage; or a chart is rendered on its own
InitPage ==
    /\ LoaderParked
    /\ InsightsParked
    /\ QueriesParked
    /\ CalcParked
    /\ PageStart /\ ChartParked /\ FormParked /\ AuthParked /\ HookParked /\ ExportParked /\ MountParked
    /\ storage \in StoredStates
    /\ route \in {"/dashboard", "/login"}
    /\ standalone \in BOOLEAN

NextPage ==
    \/ Hydrate
    \/ DashboardEffect
    \/ AuthProviderEffect
    \/ \E t \in Tokens : \E ok \in BOOLEAN : CheckAuthSettle(t, ok)
    \/ Logout
    \/ Login
    \/ Visit
    \/ ChartEffect

\* rehydration completes and React runs every effect whose dependencies
\* changed
SpecPage ==
    /\ InitPage
    /\ [][NextPage]_vars
    /\ WF_vars(Hydrate)
    /\ WF_vars(DashboardEffect)
    /\ WF_vars(ChartEffect)

\* the channel summaries the chart may be given: any number of channels up
\* to MaxSummaryChannels, each with a total contribution
InitChart ==
    /\ LoaderParked
    /\ InsightsParked
    /\ QueriesParked
    /\ CalcParked
    /\ PageParked
    /\ ChartStart /\ FormParked /\ AuthParked /\ HookParked /\ ExportParked /\ MountParked
    /\ \E n \in 0..MaxSummaryChannels :
          \E totals \in [1..n -> ContributionValues] :
             chartSummary = [i \in 1..n |->
                                [name |-> i, total_contribution |-> totals[i]]]

NextChart == FetchData

SpecChart == InitChart /\ [][NextChart]_vars

\* the form as mounted, every field empty
InitForm ==
    /\ LoaderParked
    /\ InsightsParked
    /\ QueriesParked
    /\ CalcParked
    /\ PageParked
    /\ ChartParked
    /\ FormStart /\ AuthParked /\ HookParked /\ ExportParked /\ MountParked

NextForm ==
    \/ \E name \in Fields : \E value \in FieldValues(name) :
          handleChange(name, value)
    \/ handleSubmit

SpecForm == InitForm /\ [][NextForm]_vars

\* the store as created, nobody logged in
InitAuth ==
    /\ LoaderParked
    /\ InsightsParked
    /\ QueriesParked
    /\ CalcParked
    /\ PageParked
    /\ ChartParked
    /\ FormParked
    /\ AuthStart /\ HookParked /\ ExportParked /\ MountParked

NextAuth ==
    \/ \E kind \in {"login", "register"} : CredentialsStart(kind)
    \/ \E r \in requests : \E ok \in BOOLEAN : CredentialsSettle(r, ok)
    \/ StoreLogout
    \/ CheckAuthStart
    \/ \E r \in requests : \E ok \in BOOLEAN : CheckAuthAnswer(r, ok)

\* the store's actions in any interleaving
SpecAuth == InitAuth /\ [][NextAuth]_vars

\* a component is about to issue a batch of one to MaxBatch calls
InitHook ==
    /\ LoaderParked
    /\ InsightsParked
    /\ QueriesParked
    /\ CalcParked
    /\ PageParked
    /\ ChartParked
    /\ FormParked
    /\ AuthParked
    /\ HookStart /\ ExportParked /\ MountParked
    /\ \E n \in 1..MaxBatch : \E methods \in [1..n -> Methods] :
          batch = [i \in 1..n |-> [method |-> methods[i], pc |-> "new"]]

NextHook ==
    \/ \E i \in InBatch : CallStart(i)
    \/ \E i \in InBatch : \E status \in Statuses : FetchSettle(i, status)
    \/ \E i \in InBatch : \E status \in Statuses : SummaryDataSettle(i, status)
    \/ \E i \in InBatch : \E status \in Statuses :
          SummaryChannelsSettle(i, status)

\* the answers of a batch arrive in any order
SpecHook == InitHook /\ [][NextHook]_vars

\* a logged-in user on the dashboard, the dialog closed; localStorage has
\* no item 'token', or one that some other code left there: another token
\* or a copy of the store's
InitExport ==
    /\ LoaderParked
    /\ InsightsParked
    /\ QueriesParked
    /\ CalcParked
    /\ PageLoggedIn
    /\ ChartParked
    /\ FormParked
    /\ AuthParked
    /\ HookParked
    /\ ExportStart /\ MountParked
    /\ tokenItem \in {"null", "other", "valid"}

NextExport ==
    \/ OpenDialog
    \/ CloseDialog
    \/ \E format \in ExportFormats : handleExport(format)
    \/ \E ok \in BOOLEAN : ExportSettle(ok)
    \/ TimerFire

SpecExport == InitExport /\ [][NextExport]_vars

\* ContributionChart has mounted and rendered once
InitMount ==
    /\ LoaderParked
    /\ InsightsParked
    /\ QueriesParked
    /\ CalcParked
    /\ PageParked
    /\ ChartParked
    /\ FormParked
    /\ AuthParked
    /\ HookParked
    /\ ExportParked
    /\ MountStart
    /\ effectPending = TRUE

NextMount ==
    \/ RunEffect
    \/ SummaryDataAnswered
    \/ SummaryAnswered

\* React runs a pending effect, and the backend answers every request
SpecMount ==
    /\ InitMount
    /\ [][NextMount]_vars
    /\ WF_vars(RunEffect)
    /\ WF_vars(SummaryDataAnswered)
    /\ WF_vars(SummaryAnswered)

(***************************************************************************)
(* Claims about the model loader                                           *)
(***************************************************************************)

\* C1: for any number of callers that invoke load(path) concurrently while
\* the slot is empty, exactly one physical load is performed: no two
\* physical loads are ever in progress at the same time.
SingleFlight ==
    Cardinality({c \in Callers : pc[c] = "loading"}) <= 1

\* C2: a caller that arrives while a load is in progress receives the same
\* Artifact as the caller whose load it arrived during, and no caller is
\* ever handed an unpublished (empty) Artifact.
LateCallerSharesArtifact ==
    \A c \in Callers :
        pc[c] = "returned" =>
            /\ ret[c] # NoArtifact
            /\ \A d \in arrivedDuring[c] :
                   pc[d] = "returned" => ret[c] = ret[d]

\* C3: in sequential use, a load() that follows a completed load() with no
\* reset() in between returns the identical object and performs no physical
\* load; the first load() after a reset() performs a physical load, and the
\* object a physical load returns is a new one, identical to none that a
\* caller still holds.
CacheIdempotence ==
    [][ \A c \in Callers :
          /\ (SeqCall(c) /\ last # NoArtifact) =>
                 /\ pc'[c] = "returned"
                 /\ ret'[c] = last
                 /\ loads' = loads
          /\ (SeqCall(c) /\ afterReset) =>
                 /\ pc'[c] = "loading"
                 /\ loads' = loads + 1
          /\ (Complete(c) /\ pc'[c] = "returned") =>
                 \A d \in Callers \ {c} : ret'[c] # ret[d]
      ]_vars

\* C3 witness: after a reset forced a second physical load, two callers
\* hold the identical object of that load (the second call was a hit).
CacheIdempotenceWitness ==
    \E c, d \in Callers :
        /\ c # d
        /\ pc[c] = "returned" /\ pc[d] = "returned"
        /\ ret[c] = ret[d]
        /\ ret[c].id = 2
        /\ loads = 2

Rendered == stage = "rendered"

MarginPercent == 20

\* the channel ranked first by efficiency (the earliest listed among equals)
TopRanked ==
    CHOOSE c \in 1..model.n : \A d \in 1..model.n :
        \/ model.eff[c] > model.eff[d]
        \/ model.eff[c] = model.eff[d] /\ c <= d

\* the channel ranked last by efficiency (the latest listed among equals)
BottomRanked ==
    CHOOSE c \in 1..model.n : \A d \in 1..model.n :
        \/ model.eff[c] < model.eff[d]
        \/ model.eff[c] = model.eff[d] /\ c >= d

EffSum == SumOver(model.eff, 1..model.n)

\* efficiency above / below the cross-channel mean by the margin
AboveMargin(ch) == 100 * model.n * model.eff[ch] > (100 + MarginPercent) * EffSum

BelowMargin(ch) == 100 * model.n * model.eff[ch] < (100 - MarginPercent) * EffSum

Titled(titles) == {i \in 1..Len(insights) : insights[i].title \in titles}

TypeRank(type) == CASE type = "success" -> 1 [] type = "warning" -> 2 [] OTHER -> 3

RuleRank(title) ==
    CASE title = "top performer" -> 1
      [] title = "underperforming" -> 2
      [] title = "Budget Optimization Opportunity" -> 3
      [] title = "Saturation Alert" -> 4
      [] OTHER -> 5

\* every channel has a positive efficiency, and they are not all equal
Ordinary ==
    /\ \A ch \in 1..model.n : model.eff[ch] > 0
    /\ model.eff[TopRanked] > model.eff[BottomRanked]

GroupedByType ==
    \A i, j \in 1..Len(insights) :
        i < j => TypeRank(insights[i].type) <= TypeRank(insights[j].type)

InsightsGroupedByType == (Rendered /\ Ordinary) => GroupedByType

\* C6 as amended: the insights appear in the order of the rules that emit
\* them. MMMInsights emits success, warning, info, info, which is grouped by
\* type. SimpleMMInsights emits top-performer success, under-performer
\* warning, budget info, saturation warning, portfolio info: the success
\* insight is first and the portfolio info last, but the saturation warning
\* follows the budget info.
InsightsInRuleOrder ==
    Rendered =>
        /\ Len(insights) >= 1
        /\ insights[1].type = "success"
        /\ insights[Len(insights)].type = "info"
        /\ component = "MMMInsights" => GroupedByType
        /\ component = "SimpleMMInsights" =>
              /\ \A i, j \in 1..Len(insights) :
                     i < j => RuleRank(insights[i].title) < RuleRank(insights[j].title)
              /\ \A i \in 1..Len(insights) :
                     insights[i].type =
                        (CASE RuleRank(insights[i].title) = 1 -> "success"
                           [] RuleRank(insights[i].title) \in {2, 4} -> "warning"
                           [] OTHER -> "info")

\* C6 witness: SimpleMMInsights rendered a saturation warning after the
\* budget info.
InsightsInRuleOrderWitness ==
    /\ Rendered
    /\ component = "SimpleMMInsights"
    /\ \E i, j \in 1..Len(insights) :
          /\ i < j
          /\ insights[i].title = "Budget Optimization Opportunity"
          /\ insights[j].title = "Saturation Alert"

\* C7 as claimed: a success insight naming the top-ranked channel is
\* emitted when that channel's efficiency exceeds the cross-channel mean by
\* the margin, and not when it is within the margin (stated for models
\* whose efficiencies are positive and not all equal).
TopSuccessOnlyBeyondMargin ==
    (Rendered /\ Ordinary) =>
        ((\E i \in 1..Len(insights) :
             insights[i].type = "success" /\ insights[i].channel = TopRanked)
         <=> AboveMargin(TopRanked))

\* C7 as amended: whenever there is at least one channel, exactly one
\* success insight is emitted, first in the list, naming the top-ranked
\* channel, whether or not its efficiency exceeds the mean by the margin.
TopSuccessAlways ==
    Rendered =>
        /\ {i \in 1..Len(insights) : insights[i].type = "success"} = {1}
        /\ insights[1].title = "top performer"
        /\ insights[1].channel = TopRanked

\* C7 witness: the success insight was rendered for a top channel of
\* several whose efficiency is within the margin of the mean.
TopSuccessAlwaysWitness ==
    /\ Rendered
    /\ model.n >= 2
    /\ model.eff[TopRanked] > model.eff[BottomRanked]
    /\ ~AboveMargin(TopRanked)
    /\ insights[1].type = "success"
    /\ insights[1].channel = TopRanked

\* C8 as claimed: a warning naming the bottom-ranked channel is emitted
\* when that channel's efficiency is below the cross-channel mean by the
\* margin, and not when it is within the margin (stated for models whose
\* efficiencies are positive and not all equal).
BottomWarningOnlyBeyondMargin ==
    (Rendered /\ Ordinary) =>
        ((\E i \in Titled({"underperforming", "needs optimization"}) :
             insights[i].type = "warning" /\ insights[i].channel = BottomRanked)
         <=> BelowMargin(BottomRanked))

\* C8 as amended: SimpleMMInsights emits the warning naming the
\* bottom-ranked channel exactly when there are at least two channels;
\* MMMInsights emits it exactly when the bottom-ranked channel's efficiency
\* is below 0.5; neither compares that efficiency with the mean.
BottomWarningRule ==
    Rendered =>
        LET w == Titled({"underperforming", "needs optimization"}) IN
        /\ Cardinality(w) <= 1
        /\ \A i \in w : /\ insights[i].type = "warning"
                        /\ insights[i].channel = BottomRanked
        /\ component = "SimpleMMInsights" => (w # {} <=> model.n >= 2)
        /\ component = "MMMInsights" =>
              (w # {} <=> model.eff[BottomRanked] < LowEfficiencyThreshold)

\* C8 witness: SimpleMMInsights rendered the warning for a bottom channel
\* whose efficiency is within the margin of the mean.
BottomWarningRuleWitness ==
    /\ Rendered
    /\ component = "SimpleMMInsights"
    /\ model.eff[TopRanked] > model.eff[BottomRanked]
    /\ ~BelowMargin(BottomRanked)
    /\ \E i \in Titled({"underperforming"}) : insights[i].channel = BottomRanked

\* C9: SimpleMMInsights emits the budget-shift info insight exactly when
\* the top-ranked and bottom-ranked channels are different channels; it
\* names the bottom channel as the source and the top channel as the
\* destination, and its gap is top efficiency minus bottom efficiency.
BudgetShift ==
    (Rendered /\ component = "SimpleMMInsights") =>
        LET b == Titled({"Budget Optimization Opportunity"}) IN
        /\ Cardinality(b) = (IF TopRanked # BottomRanked THEN 1 ELSE 0)
        /\ \A i \in b :
              /\ insights[i].type = "info"
              /\ insights[i].from = BottomRanked
              /\ insights[i].to = TopRanked
              /\ insights[i].gap = model.eff[TopRanked] - model.eff[BottomRanked]

\* C9 witness: a budget-shift insight with a positive gap between two of
\* three channels was rendered.
BudgetShiftWitness ==
    /\ Rendered
    /\ component = "SimpleMMInsights"
    /\ model.n = 3
    /\ \E i \in Titled({"Budget Optimization Opportunity"}) :
          /\ insights[i].gap > 0
          /\ insights[i].from # insights[i].to

\* C10: whenever at least one channel has a saturation point below the
\* low-saturation threshold, exactly one saturation warning is emitted and
\* it names every channel below the threshold and no other; when no channel
\* is below the threshold, none is emitted (stated for models whose
\* efficiencies are positive and not all equal).
SaturationAlertNamesAllBelow ==
    (Rendered /\ component = "SimpleMMInsights" /\ Ordinary) =>
        LET below == {ch \in 1..model.n : model.sat[ch] < LowSaturationThreshold}
            a == Titled({"Saturation Alert"})
        IN /\ Cardinality(a) = (IF below # {} THEN 1 ELSE 0)
           /\ \A i \in a :
                 /\ insights[i].type = "warning"
                 /\ {insights[i].names[k] : k \in 1..Len(insights[i].names)} = below

\* C11: every insight sequence SimpleMMInsights produces contains exactly
\* one portfolio-summary info insight, and the mean, the minimum and the
\* maximum efficiency it reports are those of all the model's channels
\* (stated for models in which some channel has a positive efficiency).
PortfolioSummaryOverAllChannels ==
    (Rendered /\ component = "SimpleMMInsights" /\ model.eff[TopRanked] > 0) =>
        LET p == Titled({"Portfolio Performance"})
            all == {model.eff[ch] : ch \in 1..model.n}
        IN /\ Cardinality(p) = 1
           /\ \A i \in p :
                 /\ insights[i].type = "info"
                 /\ insights[i].weeks = TotalWeeks
                 /\ insights[i].nchannels = model.n
                 /\ insights[i].stats.max \in all
                 /\ \A x \in all : x <= insights[i].stats.max
                 /\ insights[i].stats.min \in all
                 /\ \A x \in all : x >= insights[i].stats.min
                 /\ insights[i].stats.avg_num * model.n
                       = EffSum * insights[i].stats.avg_den

(***************************************************************************)
(* Claims about the channel queries                                        *)
(***************************************************************************)

\* C12: a contribution or curve query for a channel name that the model
\* does not have always ends with the error thrown to the caller (the
\* service's not-found status), with no data returned, and the hook's error
\* state set.
UnknownChannelSurfaces ==
    \A k \in Clients :
        (/\ qpc[k] = "done"
         /\ qreq[k].kind \in {"contribution", "curves"}
         /\ qreq[k].channel # EmptyName
         /\ ~InChannelSet(qreq[k].channel))
        => /\ qres[k].thrown
           /\ qres[k].status = 404
           /\ qres[k].data = <<>>
           /\ hookError[k] # "null"

\* C12 witness: a curve query for a channel the model does not have has
\* ended with the error thrown.
UnknownChannelSurfacesWitness ==
    \E k \in Clients :
        /\ qpc[k] = "done"
        /\ qreq[k] = [kind |-> "curves", channel |-> Name(DoesNotExist, "")]
        /\ qres[k].thrown
        /\ hookError[k] = "HTTP error! status"

LoadFailsOverOnTimeout ==
    /\ \A c \in Callers :
          (pc[c] = "loading") ~> (pc[c] \in {"returned", "raised"})
    /\ \A c \in Callers :
          (pc[c] = "loading" /\ exceeded[c])
              ~> (pc[c] = "returned" /\ ret[c].source = "synthetic")

(***************************************************************************)
(* Claims about the calculations                                           *)
(***************************************************************************)
CalcDone(op) == calcStage = "done" /\ calcIn.op = op

\* C15: for a sampled curve, the reported saturation point is the smallest
\* sampled spend after which every sample's marginal return is below 10% of
\* the maximum marginal return, and the curve is flagged saturated; when no
\* sample has that property, the saturation point is the largest sampled
\* spend and the curve is flagged not saturated.
SaturationPointIsSmallest ==
    CalcDone("saturation") =>
        LET spend == calcIn.spend
            response == calcIn.response
            n == Len(response)
            m == [k \in 2..n |-> response[k] - response[k - 1]]
            peak == CHOOSE x \in {m[k] : k \in 2..n} : \A k \in 2..n : m[k] <= x
            candidates == {j \in 1..(n - 1) :
                              \A k \in (j + 1)..n :
                                  100 * m[k] < SaturationPercent * peak}
        IN IF candidates # {}
           THEN /\ calcOut.saturated
                /\ calcOut.saturation_point \in {spend[j] : j \in candidates}
                /\ \A j \in candidates : calcOut.saturation_point <= spend[j]
           ELSE /\ ~calcOut.saturated
                /\ calcOut.saturation_point = spend[n]

\* C15 witness: an S-shaped curve, whose first marginal return is already
\* below the threshold, was found saturated at a later sample.
SaturationPointIsSmallestWitness ==
    /\ CalcDone("saturation")
    /\ 100 * (calcIn.response[2] - calcIn.response[1])
          < SaturationPercent * (calcIn.response[3] - calcIn.response[2])
    /\ calcOut.saturated
    /\ calcOut.saturation_point = 2000

\* C16: for every period t the contribution is roi times spend[t], the
\* contribution series is as long as the spend series, and summary.total
\* is the sum of the series.
ContributionIsRoiTimesSpend ==
    CalcDone("contributions") =>
        /\ Len(calcOut.contributions) = Len(calcIn.spend)
        /\ \A t \in 1..Len(calcIn.spend) :
              calcOut.contributions[t] = calcIn.roi * calcIn.spend[t]
        /\ calcOut.summary.total = calcIn.roi * SumSeq(calcIn.spend)

\* C16 witness: roi 1.58 and spend 1000, 2000, 3000 gave contributions
\* 1580, 3160, 4740 and total 9480.
ContributionIsRoiTimesSpendWitness ==
    /\ CalcDone("contributions")
    /\ calcIn.roi = 158
    /\ calcIn.spend = <<1000, 2000, 3000>>
    /\ calcOut.contributions = <<158000, 316000, 474000>>
    /\ calcOut.summary.total = 948000

\* C17: for slope > 0 and ec > 0 the response sequence is non-decreasing
\* as spend increases.
ResponseNonDecreasing ==
    (CalcDone("curve") /\ calcIn.slope > 0 /\ calcIn.ec > 0) =>
        \A i \in 2..Len(calcOut.response) :
            calcOut.response[i].num * calcOut.response[i - 1].den
                >= calcOut.response[i - 1].num * calcOut.response[i].den

\* C17 witness: a curve of slope 2 was sampled through its half-saturation
\* spend, where the response is one half, and rises after it.
ResponseNonDecreasingWitness ==
    /\ CalcDone("curve")
    /\ calcIn.slope = 2
    /\ \E i \in 1..(Len(calcOut.spend) - 1) :
          /\ calcOut.spend[i] = calcIn.ec
          /\ 2 * calcOut.response[i].num = calcOut.response[i].den
          /\ calcOut.response[i + 1].num * calcOut.response[i].den
                > calcOut.response[i].num * calcOut.response[i + 1].den

(***************************************************************************)
(* Claims about the dashboard page and the auth store                      *)
(***************************************************************************)

\* C18: in every reachable state of the dashboard page, the protected
\* content (user profile and MMM components) is rendered only when the auth
\* store holds both a non-null token and a non-null user.
ContentOnlyWhenAuthenticated ==
    (route = "/dashboard"
        /\ DashboardRender(isHydrated, token, user) = "content") =>
        (token # "null" /\ user # "null")

\* C18 witness: the dashboard shows the content to a logged-in user whose
\* session check is still in flight (a logout now would leave the store
\* with the user of the late answer and no token).
ContentOnlyWhenAuthenticatedWitness ==
    /\ route = "/dashboard"
    /\ DashboardRender(isHydrated, token, user) = "content"
    /\ token = "valid"
    /\ user = "u"
    /\ "valid" \in inflight

TotalContributionOverAllChannels ==
    (chartStage = "shown"
        /\ \A i \in 1..Len(chartSummary) :
               chartSummary[i].total_contribution % 10 = 0) =>
        10 * totalContribution(data)
            = SumSeq([i \in 1..Len(chartSummary) |->
                         chartSummary[i].total_contribution])

(***************************************************************************)
(* Claims about the register form                                          *)
(***************************************************************************)

\* C22: RegisterForm calls onSubmit only when the form is valid: the email
\* contains '@', the username has at least 3 characters, the password has
\* at least 6 characters and the password equals confirmPassword; with any
\* of these violated, no submission happens.
SubmitsOnlyValidForm ==
    [][calls' # calls =>
          /\ \E i \in 1..Len(formData.email) : formData.email[i] = "@"
          /\ Len(formData.username) >= 3
          /\ Len(formData.password) >= 6
          /\ formData.password = formData.confirmPassword
          /\ submitted'.email = formData.email
          /\ submitted'.password = formData.password]_vars

\* C22 witness: after a submission, the visitor changed the confirmation
\* to another password of six characters and pressed submit again: the
\* mismatch is reported and nothing more was submitted.
SubmitsOnlyValidFormWitness ==
    /\ calls = 1
    /\ submitted.password = <<"s", "e", "c", "r", "e", "t">>
    /\ formData.password = <<"s", "e", "c", "r", "e", "t">>
    /\ formData.confirmPassword = <<"p", "a", "s", "s", "w", "d">>
    /\ validationErrors["confirmPassword"] = "Passwords do not match"

(***************************************************************************)
(* Claims about the auth store under interleaving                          *)
(***************************************************************************)

\* C23: in every reachable state of the auth store, under any interleaving
\* of login, register, logout and checkAuth, a non-null user implies a
\* non-null token.
UserImpliesToken == user # "null" => token # "null"

\* C24: after logout, user and token stay null until a login or register
\* that was started after that logout succeeds; an answer that was already
\* in flight when logout ran does not restore a session.
LogoutHolds == loggedOut => (user = "null" /\ token = "null")

\* C25: a session established by a successful login or register is cleared
\* only by logout or by the failure of a checkAuth that was issued with
\* that session's token.
SessionClearedOnlyByItsOwnCheck ==
    [][(token # "null" /\ token' = "null") =>
          \/ logouts' = logouts + 1
          \/ \E r \in requests \ requests' :
                r.kind = "checkAuth" /\ r.sent = token]_vars

(***************************************************************************)
(* Claims about the hook's shared loading and error state                  *)
(***************************************************************************)

\* C26: if any fetch method of useMMMData fails within a batch of calls
\* issued concurrently by a component, then once every call of the batch
\* has settled the hook's error is non-null.
BatchFailureKept ==
    ((\A i \in InBatch : Settled(i)) /\ (\E i \in InBatch : batch[i].pc = "failed"))
        => error # "null"

\* C27: the loading flag of useMMMData is true in every state in which at
\* least one of its fetch methods has started and not yet settled, and it
\* is false once all of them have settled.
LoadingWhileInFlight ==
    /\ (\E i \in InBatch : InFlight(i)) => loading
    /\ (InBatch # {} /\ \A i \in InBatch : Settled(i)) => ~loading

(***************************************************************************)
(* Claims about the mounted ContributionChart                              *)
(***************************************************************************)

\* C29: after ContributionChart mounts against a backend that answers
\* every request, it issues finitely many channel-summary fetches and
\* reaches a quiescent state in which the chart is shown and no further
\* fetch is started: from some point on no call is in flight, no effect is
\* pending and the chart has its data.
ChartQuiesces ==
    <>[](/\ InFlightCount = 0
         /\ ~effectPending
         /\ ~loading
         /\ chart = "set")

(***************************************************************************)
(* Claims about the export                                                 *)
(***************************************************************************)

\* C28: whenever the auth store holds a non-null token, exportInsights
\* issues its export request with the header 'Authorization: Bearer <that
\* token>' and does not fail with 'Authentication required'.
ExportUsesStoreToken ==
    token # "null" =>
        /\ exportStatus.message # "Authentication required"
        /\ exporting # NoExport => exporting.authorization = <<"Bearer", token>>

====
